---- MODULE Spec2Model ----
(***************************************************************************)
(* A model of thermonets' density fit (src/thermonets/_density.py) and of  *)
(* its Cartesian to geodetic conversion (src/thermonets/_util.py).         *)
(*                                                                         *)
(* Numbers.  Altitudes, densities and parameters are small integers that   *)
(* stand for the floats of the program.  np.exp is kept as a function      *)
(* symbol: the float  alpha * exp(arg)  is the pair <<alpha, arg>>, and a  *)
(* float built by repeated  +=  from 0.0 is the sequence of the terms      *)
(* added, in the order they were added.  Where only the IEEE class of a   *)
(* float matters (log10, the pole of cart2geo) the model computes with    *)
(* the classes "nan", "-inf", "neg", "zero", "pos", "+inf".              *)
(***************************************************************************)
EXTENDS Integers, Sequences, FiniteSets, TLC

VARIABLES
    obj,        \* the global_fit_udp object: NoObj, or its fields X, Y, n
    fop,        \* the last operation called on the density side
    fargs,      \* its arguments: [h, params]
    foutcome,   \* "none", "return" or the name of the exception raised
    fresult,    \* the value returned
    gpc,        \* cart2geo: "idle", "loop" (at the for statement), "done", "raised"
    gin,        \* cart2geo's arguments x, y, z, e2, iters, symbolic
    gloc,       \* cart2geo's locals long, p, phi, N, h
    git,        \* how many values the for statement has drawn from range(iters)
    gsteps,     \* how many times the loop body has run
    glongw,     \* how many times long has been assigned
    gtrace,     \* the backend functions called, in order, each with its operand
    goutcome,   \* "none", "return" or the name of the exception raised
    gresult,    \* the triple returned
    heap,       \* concurrent calls: the arrays, by reference
    cobj,       \* the shared object: the references X and Y, and n
    calls,      \* each call's operation, position, locals and result
    cinit,      \* the dataset the shared object was built from
    written     \* the writes so far: <<array written, call that wrote it>>

fitvars == <<obj, fop, fargs, foutcome, fresult>>
geovars == <<gpc, gin, gloc, git, gsteps, glongw, gtrace, goutcome, gresult>>
concvars == <<heap, cobj, calls, cinit, written>>
vars == <<fitvars, geovars, concvars>>

(***************************************************************************)
(* Bounds of the model.                                                    *)
(***************************************************************************)
MaxLen == 2         \* longest altitude / density sequence
MaxN == 2           \* largest term count n given to the constructor
MaxParamLen == 6    \* longest parameter vector
MaxIters == 3       \* largest iteration count given to cart2geo
NumCalls == 2       \* calls running at once on one shared object

XVals == {0, 1}     \* altitudes
YVals == {0, 1}     \* densities; 0 breaks the precondition Y[i] > 0
ParamVals == {0, 1} \* parameters, inside the problem's lower bound 0

SeqsUpTo(S, k) == UNION {[1..m -> S] : m \in 0..k}

NoObj == [none |-> TRUE]
NoArgs == [h |-> <<>>, params |-> <<>>]

Min(a, b) == IF a < b THEN a ELSE b

(***************************************************************************)
(* Python's list and array primitives.                                     *)
(***************************************************************************)
\* lst[lo:hi] for 0 <= lo, 0 <= hi: both ends are clamped to the length.
Slice(lst, lo, hi) ==
    LET l == Min(lo, Len(lst))
        u == Min(hi, Len(lst))
    IN  IF u <= l THEN <<>> ELSE SubSeq(lst, l + 1, u)

\* lst * k: k copies of lst, none when k <= 0.
RECURSIVE Rep(_, _)
Rep(lst, k) == IF k <= 0 THEN <<>> ELSE lst \o Rep(lst, k - 1)

\* lst[start:] = new, for start >= 0: the tail from start is replaced.
SliceAssignFrom(lst, start, new) == Slice(lst, 0, start) \o new

\* zip(a, b, c): as long as the shortest.
Zip3(a, b, c) ==
    [i \in 1..Min(Len(a), Min(Len(b), Len(c))) |-> <<a[i], b[i], c[i]>>]

\* np.zeros(shape): the float 0.0 is the empty sum.
Zeros(len) == [j \in 1..len |-> <<>>]

(***************************************************************************)
(* rho_approximation                                                       *)
(***************************************************************************)
\* alpha * np.exp(-(h - gamma) * beta), elementwise over h
ExpTerm(h, alpha, beta, gamma) ==
    [j \in 1..Len(h) |-> <<alpha, (0 - (h[j] - gamma)) * beta>>]

\* retval += term, elementwise
AddInPlace(retval, term) ==
    [j \in 1..Len(retval) |-> Append(retval[j], term[j])]

RECURSIVE RhoLoop(_, _, _, _)
RhoLoop(retval, h, triples, k) ==
    IF k > Len(triples) THEN retval
    ELSE RhoLoop(AddInPlace(retval,
                            ExpTerm(h, triples[k][1], triples[k][2], triples[k][3])),
                 h, triples, k + 1)

\* the beta and gamma blocks taken in the other order
rho_approximation_swapped(h, params) ==
    LET n == Len(params) \div 3
        alphas == Slice(params, 0, n)
        betas == Slice(params, 2 * n, 3 * n)
        gammas == Slice(params, n, 2 * n)
        retval == Zeros(Len(h))
    IN  RhoLoop(retval, h, Zip3(alphas, betas, gammas), 1)

rho_approximation(h, params) ==
    LET n == Len(params) \div 3
        alphas == Slice(params, 0, n)
        betas == Slice(params, n, 2 * n)
        gammas == Slice(params, 2 * n, 3 * n)
        retval == Zeros(Len(h))
    IN  RhoLoop(retval, h, Zip3(alphas, betas, gammas), 1)

(***************************************************************************)
(* IEEE classes of the floats fitness computes with.                       *)
(***************************************************************************)
\* the class of sum_i alpha_i * exp(arg_i): exp of a finite argument is a
\* positive float, so each term has the sign of its alpha
SumClass(sum) ==
    LET signs == {sum[i][1] : i \in 1..Len(sum)}
    IN  IF \A a \in signs : a = 0 THEN "zero"
        ELSE IF \A a \in signs : a >= 0 THEN "pos"
        ELSE IF \A a \in signs : a <= 0 THEN "neg"
        ELSE "finite"

IntClass(v) == IF v = 0 THEN "zero" ELSE IF v > 0 THEN "pos" ELSE "neg"

\* a log10 that is clamped away from 0
Log10ClassClamped(c) ==
    CASE c = "zero" -> "fin"
      [] c = "pos" -> "fin"
      [] c = "+inf" -> "+inf"
      [] OTHER -> "nan"

\* np.log10: a warning and -inf at 0, a warning and nan below 0
Log10Class(c) ==
    CASE c = "zero" -> "-inf"
      [] c = "pos" -> "fin"
      [] c = "+inf" -> "+inf"
      [] OTHER -> "nan"

\* a - b on the classes log10 returns
SubClass(a, b) ==
    CASE a = "nan" \/ b = "nan" -> "nan"
      [] a = b /\ a # "fin" -> "nan"
      [] a = "+inf" \/ b = "-inf" -> "+inf"
      [] a = "-inf" \/ b = "+inf" -> "-inf"
      [] OTHER -> "fin"

AbsClass(c) == IF c = "-inf" THEN "+inf" ELSE c

\* np.mean: nan of an empty array (a warning, not an error)
MeanClass(cs) ==
    IF Len(cs) = 0 THEN "nan"
    ELSE IF \E i \in 1..Len(cs) : cs[i] = "nan" THEN "nan"
    ELSE IF \E i \in 1..Len(cs) : cs[i] = "+inf" THEN "+inf"
    ELSE "fin"

\* numpy broadcasting of two one-dimensional shapes
Broadcastable(a, b) == a = b \/ a = 1 \/ b = 1
BroadcastLen(a, b) == IF a = 1 THEN b ELSE a
At(s, j) == IF Len(s) = 1 THEN s[1] ELSE s[j]

(***************************************************************************)
(* global_fit_udp                                                          *)
(***************************************************************************)
\* __init__: the three fields are stored as given
init_udp(X, Y, n) == [X |-> X, Y |-> Y, n |-> n]

\* [np.mean(np.abs(np.log10(Y) - np.log10(Y_pred)))]: the outcome and the value
LogError(Y, Y_pred) ==
    IF ~Broadcastable(Len(Y), Len(Y_pred))
    THEN [outcome |-> "ValueError", value |-> <<>>]
    ELSE LET m == BroadcastLen(Len(Y), Len(Y_pred))
             diffs == [j \in 1..m |->
                        AbsClass(SubClass(Log10Class(IntClass(At(Y, j))),
                                          Log10Class(SumClass(At(Y_pred, j)))))]
         IN  [outcome |-> "return",
              value |-> <<[class |-> MeanClass(diffs),
                           of |-> [j \in 1..m |-> <<At(Y, j), At(Y_pred, j)>>]]>>]

fitness(self, x) == LogError(self.Y, rho_approximation(self.X, x))

\* pg.estimate_gradient evaluates the callback at x with one coordinate
\* moved up and at x with it moved down, for every coordinate in turn; the
\* step is one unit of the model
Perturb(x, i, d) == [x EXCEPT ![i] = @ + d]

EvalPoint(x, g) == Perturb(x, (g + 1) \div 2, IF g % 2 = 1 THEN 1 ELSE 0 - 1)

\* gradient: the callback's values, in the order estimate_gradient asks for them
gradient(self, x) == [g \in 1..(2 * Len(x)) |-> fitness(self, EvalPoint(x, g))]

\* the gammas' bound written from index n instead of 2n
get_bounds_from_n(self) ==
    LET lb == Rep(Rep(<<"0">>, self.n), 3)
        ub0 == Rep(Rep(<<"1e-1">>, self.n), 3)
        ub == SliceAssignFrom(ub0, self.n, Rep(<<"100">>, self.n))
    IN  <<lb, ub>>

get_bounds(self) ==
    LET lb == Rep(Rep(<<"0">>, self.n), 3)
        ub0 == Rep(Rep(<<"1e-1">>, self.n), 3)
        ub == SliceAssignFrom(ub0, self.n * 2, Rep(<<"100">>, self.n))
    IN  <<lb, ub>>

(***************************************************************************)
(* cart2geo.  A numeric value is the IEEE class of the float:              *)
(*   "nan", "-inf", "+inf"   not finite                                    *)
(*   "zero", "pos", "neg"    finite, of that sign                          *)
(*   "N", "negN"             exactly the N of the running iteration, and   *)
(*                           exactly its negation                          *)
(*   "fin"                   finite, sign not known                        *)
(*   "any"                   not known                                     *)
(* Products, quotients and squares of finite nonzero floats are taken to   *)
(* stay finite and nonzero (no overflow, no underflow).  Under the         *)
(* symbolic backend every value is an expression node, "expr".             *)
(***************************************************************************)
Unbound == "unbound"
Expr == "expr"
NotFinite == {"nan", "-inf", "+inf"}
Finite == {"zero", "pos", "neg", "N", "negN", "fin"}
Coord == {"neg", "zero", "pos"}

Sign(a) == CASE a \in {"pos", "N"} -> "pos"
             [] a \in {"neg", "negN"} -> "neg"
             [] OTHER -> a

Flip(a) == CASE a = "pos" -> "neg"
             [] a = "neg" -> "pos"
             [] a = "N" -> "negN"
             [] a = "negN" -> "N"
             [] a = "+inf" -> "-inf"
             [] a = "-inf" -> "+inf"
             [] OTHER -> a

\* a pole-guarded division: a / 0 gives 0
DivGuarded(a, b) ==
    CASE a = "nan" \/ b = "nan" -> "nan"
      [] a = "any" \/ b = "any" -> "any"
      [] b = "zero" -> "zero"
      [] b \in {"+inf", "-inf"} -> IF a \in NotFinite THEN "nan" ELSE "zero"
      [] b = "fin" -> "any"
      [] Sign(b) = "pos" -> Sign(a)
      [] OTHER -> Flip(Sign(a))

\* a / b on numpy floats: a warning, never an error, when b is 0
Div(a, b) ==
    CASE a = "nan" \/ b = "nan" -> "nan"
      [] a = "any" \/ b = "any" -> "any"
      [] b = "zero" -> (CASE a = "zero" -> "nan"
                          [] a = "fin" -> "any"
                          [] Sign(a) = "pos" -> "+inf"
                          [] Sign(a) = "neg" -> "-inf"
                          [] OTHER -> a)
      [] b \in {"+inf", "-inf"} -> IF a \in NotFinite THEN "nan" ELSE "zero"
      [] b = "fin" -> "any"
      [] Sign(b) = "pos" -> Sign(a)
      [] OTHER -> Flip(Sign(a))

\* a * b
Mul(a, b) ==
    CASE a = "nan" \/ b = "nan" -> "nan"
      [] a = "any" \/ b = "any" -> "any"
      [] (a = "zero" /\ b \in NotFinite) \/ (b = "zero" /\ a \in NotFinite) -> "nan"
      [] a = "zero" \/ b = "zero" -> "zero"
      [] a = "fin" \/ b = "fin" -> IF a \in NotFinite \/ b \in NotFinite THEN "any" ELSE "fin"
      [] Sign(b) = "pos" -> Sign(a)
      [] OTHER -> Flip(Sign(a))

\* a + b; N + (-N) is exactly 0
Add(a, b) ==
    CASE a = "nan" \/ b = "nan" -> "nan"
      [] a = "any" \/ b = "any" -> "any"
      [] a \in NotFinite /\ b \in NotFinite -> IF a = b THEN a ELSE "nan"
      [] a \in NotFinite -> a
      [] b \in NotFinite -> b
      [] a = "zero" -> b
      [] b = "zero" -> a
      [] (a = "N" /\ b = "negN") \/ (a = "negN" /\ b = "N") -> "zero"
      [] Sign(a) = Sign(b) /\ Sign(a) \in {"pos", "neg"} -> Sign(a)
      [] OTHER -> "fin"

Sub(a, b) == Add(a, Flip(b))

\* x**2
Sq(a) == Mul(a, a)

Sqrt(a) ==
    CASE a \in {"nan", "-inf"} \/ Sign(a) = "neg" -> "nan"
      [] a = "fin" -> "any"
      [] OTHER -> Sign(a)

\* atan: +-pi/2 at +-inf, so never infinite
Atan(a) ==
    CASE a = "+inf" -> "pos"
      [] a = "-inf" -> "neg"
      [] OTHER -> Sign(a)

\* atan2(y, x) of two finite floats is finite: 0 at (0, 0), pi left of it
Atan2(y, x) ==
    CASE y \in Finite /\ x \in Finite ->
             (IF y # "zero" THEN Sign(y)
              ELSE IF Sign(x) = "neg" THEN "pos"
              ELSE IF x = "fin" THEN "fin"
              ELSE "zero")
      [] y = "nan" \/ x = "nan" -> "nan"
      [] OTHER -> "any"

\* cos of a latitude atan returned: |phi| <= the float pi/2, whose cos is
\* 6.1e-17, so the result is a positive float
Cos(phi) ==
    CASE phi \in Finite -> "pos"
      [] phi \in NotFinite -> "nan"
      [] OTHER -> "any"

\* 1 - e2, with e2 in [0, 1)
OneMinusE2(e2) == "pos"

\* R_eq / sqrt(1 - e2 * sin(phi)**2): sin(phi)**2 <= 1 and e2 < 1 leave a
\* positive radicand, so N is a positive float unless phi is not finite
NOf(e2, phi) ==
    CASE phi \in Finite -> "N"
      [] phi \in NotFinite -> "nan"
      [] OTHER -> "any"

\* a value N of the previous iteration is no longer the running N
Stale(a) == IF a \in {"N", "negN"} THEN Sign(a) ELSE a

(***************************************************************************)
(* The backend: lines 29-36 bind the functions the body calls.             *)
(***************************************************************************)
\* the symbolic branch binding atan to the two-argument function
BindWrongAtan(symbolic) ==
    IF symbolic
    THEN [backend |-> "hy", atan2 |-> "hy.atan2", atan |-> "hy.atan2"]
    ELSE [backend |-> "np", atan2 |-> "np.arctan2", atan |-> "np.arctan"]

Bind(symbolic) ==
    IF symbolic
    THEN [backend |-> "hy", atan2 |-> "hy.atan2", atan |-> "hy.atan"]
    ELSE [backend |-> "np", atan2 |-> "np.arctan2", atan |-> "np.arctan"]

Call(fn, operand) == [fn |-> fn, operand |-> operand]

\* what a call evaluates to: a class under numpy, a node under heyoka
Val(symbolic, class) == IF symbolic THEN Expr ELSE class

\* lines 37-39
Entry(in) ==
    LET b == Bind(in.symbolic)
        long == Atan2(in.y, in.x)
        p == Sqrt(Add(Sq(in.x), Sq(in.y)))
        phi == Atan(Div(Div(in.z, p), OneMinusE2(in.e2)))
    IN  [loc |-> [long |-> Val(in.symbolic, long),
                  p |-> Val(in.symbolic, p),
                  phi |-> Val(in.symbolic, phi),
                  N |-> Unbound,
                  h |-> Unbound],
         calls |-> << Call(b.atan2, "y, x"),
                      Call(b.backend \o ".sqrt", "x**2 + y**2"),
                      Call(b.atan, "z / p / (1 - e2)") >>]

\* lines 42-44, on numbers: the new N, h and phi
Refine(e2, z, p, phi0) ==
    LET N == NOf(e2, phi0)
        h == Sub(Div(p, Cos(phi0)), N)
        phi == Atan(Div(Div(z, p), Sub("pos", Div(Mul(e2, N), Add(N, h)))))
    IN  [N |-> Stale(N), h |-> Stale(h), phi |-> Stale(phi)]

Classes == Finite \cup NotFinite \cup {"any"}

\* Refine, tabulated once over the classes
RefineTable ==
    [e2 \in {"zero", "pos"}, z \in Coord, p \in Classes, phi0 \in Classes |->
        Refine(e2, z, p, phi0)]

BodyNumeric(in, loc) ==
    LET r == RefineTable[in.e2, in.z, loc.p, loc.phi]
    IN  [loc EXCEPT !.N = r.N, !.h = r.h, !.phi = r.phi]

\* lines 42-44
Body(in, loc) ==
    LET b == Bind(in.symbolic)
    IN  [loc |-> IF in.symbolic
                 THEN [loc EXCEPT !.N = Expr, !.h = Expr, !.phi = Expr]
                 ELSE BodyNumeric(in, loc),
         calls |-> << Call(b.backend \o ".sin", "phi"),
                      Call(b.backend \o ".sqrt", "1 - e2 * sin(phi)**2"),
                      Call(b.backend \o ".cos", "phi"),
                      Call(b.atan, "z / p / (1 - e2 * N / (N + h))") >>]

\* the for statement running one time too many
LoopContinuesOneMore(it, iters) == it <= iters

\* for _ in range(iters): the body runs while range(iters) has a next value
LoopContinues(it, iters) == it < iters

\* return with h given a value before the loop
ReturnOutcomeBound(loc) == "return"

\* return h, phi, long: reading a local that was never assigned raises
ReturnOutcome(loc) ==
    IF loc.h = Unbound \/ loc.phi = Unbound \/ loc.long = Unbound
    THEN "UnboundLocalError"
    ELSE "return"

NoLoc == [long |-> Unbound, p |-> Unbound, phi |-> Unbound, N |-> Unbound, h |-> Unbound]
NoIn == [x |-> "zero", y |-> "zero", z |-> "zero", e2 |-> "zero", iters |-> 0, symbolic |-> FALSE]

InitGeo ==
    /\ gpc = "idle"
    /\ gin = NoIn
    /\ gloc = NoLoc
    /\ git = 0
    /\ gsteps = 0
    /\ glongw = 0
    /\ gtrace = <<>>
    /\ goutcome = "none"
    /\ gresult = <<>>

\* the call, up to the for statement
Cart2geoEntry ==
    /\ gpc = "idle"
    /\ \E x \in Coord, y \in Coord, z \in Coord, e2 \in {"zero", "pos"},
          iters \in (0 - 1)..MaxIters, symbolic \in BOOLEAN :
          /\ gin' = [x |-> x, y |-> y, z |-> z, e2 |-> e2, iters |-> iters,
                     symbolic |-> symbolic]
          /\ gloc' = Entry(gin').loc
          /\ gtrace' = Entry(gin').calls
    /\ glongw' = glongw + 1
    /\ gpc' = "loop"
    /\ UNCHANGED <<git, gsteps, goutcome, gresult>>
    /\ UNCHANGED <<fitvars, concvars>>

\* one run of the loop body
Cart2geoBody ==
    /\ gpc = "loop"
    /\ LoopContinues(git, gin.iters)
    /\ gloc' = Body(gin, gloc).loc
    /\ gtrace' = gtrace \o Body(gin, gloc).calls
    /\ git' = git + 1
    /\ gsteps' = gsteps + 1
    /\ UNCHANGED <<gpc, gin, glongw, goutcome, gresult>>
    /\ UNCHANGED <<fitvars, concvars>>

\* the loop is exhausted: the return statement
Cart2geoReturn ==
    /\ gpc = "loop"
    /\ ~LoopContinues(git, gin.iters)
    /\ goutcome' = ReturnOutcome(gloc)
    /\ gresult' = IF goutcome' = "return" THEN <<gloc.h, gloc.phi, gloc.long>> ELSE <<>>
    /\ gpc' = IF goutcome' = "return" THEN "done" ELSE "raised"
    /\ UNCHANGED <<gin, gloc, git, gsteps, glongw, gtrace>>
    /\ UNCHANGED <<fitvars, concvars>>

NextGeo == Cart2geoEntry \/ Cart2geoBody \/ Cart2geoReturn

(***************************************************************************)
(* Concurrent calls on one shared object.  Arrays live in a heap and are   *)
(* passed by reference, as numpy arrays are; a call is a sequence of       *)
(* steps, and the steps of different calls interleave.                     *)
(***************************************************************************)
Callers == 1..NumCalls
XRef == <<"X", 0>>
YRef == <<"Y", 0>>
ParamsRef(c) == <<"params", c>>
RetvalRef(c) == <<"retval", c>>
NoRef == <<"none", 0>>
Refs == {XRef, YRef} \cup {ParamsRef(c) : c \in Callers} \cup {RetvalRef(c) : c \in Callers}

Ops == {"rho_approximation", "fitness", "gradient", "get_bounds"}

\* the datasets and parameter vectors the concurrent calls are run on
ConcData == { [X |-> <<1>>, Y |-> <<1>>], [X |-> <<0, 1>>, Y |-> <<1, 1>>] }
ConcN == {1, 2}
ConcParams == { <<0, 0, 0>>, <<1, 1, 0>> }

\* the array a call's retval names, were it to share h's storage
NewArrayAliased(c, href) == href

\* np.zeros(h.shape) makes a new array: its reference is the call's own
NewArray(c, href) == RetvalRef(c)

IdleCall == [op |-> "none", pc |-> "idle", x |-> NoRef, h |-> NoRef, retval |-> NoRef,
             k |-> 0, outcome |-> "none", result |-> <<>>]

InitConc ==
    /\ \E d \in ConcData, n \in ConcN, ps \in [Callers -> ConcParams] :
          /\ cinit = [X |-> d.X, Y |-> d.Y, n |-> n]
          /\ heap = [r \in Refs |->
                        CASE r = XRef -> d.X
                          [] r = YRef -> d.Y
                          [] r[1] = "params" -> ps[r[2]]
                          [] OTHER -> <<>>]
          /\ cobj = [X |-> XRef, Y |-> YRef, n |-> n]
    /\ calls = [c \in Callers |-> IdleCall]
    /\ written = {}

\* the object as the sequential operators take it
Deref(self) == [X |-> heap[self.X], Y |-> heap[self.Y], n |-> self.n]

\* a caller enters one of the operations with its own parameter vector
CallStart(c) ==
    /\ calls[c].pc = "idle"
    /\ \E op \in Ops :
          calls' = [calls EXCEPT ![c] =
                      [@ EXCEPT !.op = op,
                                !.x = IF op = "get_bounds" THEN NoRef ELSE ParamsRef(c),
                                !.h = IF op \in {"rho_approximation", "fitness"}
                                      THEN cobj.X ELSE NoRef,
                                !.pc = CASE op = "get_bounds" -> "bounds"
                                         [] op = "gradient" -> "estimate"
                                         [] OTHER -> "zeros"]]
    /\ UNCHANGED <<heap, cobj, cinit, written>>
    /\ UNCHANGED <<fitvars, geovars>>

\* rho_approximation, line 18: retval = np.zeros(h.shape)
RhoZeros(c) ==
    /\ calls[c].pc = "zeros"
    /\ LET ref == NewArray(c, calls[c].h)
       IN  /\ heap' = [heap EXCEPT ![ref] = Zeros(Len(heap[calls[c].h]))]
           /\ written' = written \cup {<<ref, c>>}
           /\ calls' = [calls EXCEPT ![c] = [@ EXCEPT !.retval = ref, !.k = 1, !.pc = "loop"]]
    /\ UNCHANGED <<cobj, cinit>>
    /\ UNCHANGED <<fitvars, geovars>>

\* the triples the for statement of line 19 runs over
Triples(params) ==
    LET n == Len(params) \div 3
    IN  Zip3(Slice(params, 0, n), Slice(params, n, 2 * n), Slice(params, 2 * n, 3 * n))

\* rho_approximation, line 20: one retval += alpha * np.exp(-(h - gamma) * beta)
RhoAdd(c) ==
    /\ calls[c].pc = "loop"
    /\ LET t == Triples(heap[calls[c].x])
           k == calls[c].k
       IN  /\ k <= Len(t)
           /\ heap' = [heap EXCEPT ![calls[c].retval] =
                          AddInPlace(@, ExpTerm(heap[calls[c].h], t[k][1], t[k][2], t[k][3]))]
           /\ written' = written \cup {<<calls[c].retval, c>>}
           /\ calls' = [calls EXCEPT ![c] = [@ EXCEPT !.k = k + 1]]
    /\ UNCHANGED <<cobj, cinit>>
    /\ UNCHANGED <<fitvars, geovars>>

\* rho_approximation, line 21, and for fitness line 37 on the array returned
RhoReturn(c) ==
    /\ calls[c].pc = "loop"
    /\ calls[c].k > Len(Triples(heap[calls[c].x]))
    /\ LET Y_pred == heap[calls[c].retval]
           r == IF calls[c].op = "fitness"
                THEN LogError(heap[cobj.Y], Y_pred)
                ELSE [outcome |-> "return", value |-> Y_pred]
       IN  calls' = [calls EXCEPT ![c] =
                       [@ EXCEPT !.pc = "done", !.outcome = r.outcome, !.result = r.value]]
    /\ UNCHANGED <<heap, cobj, cinit, written>>
    /\ UNCHANGED <<fitvars, geovars>>

\* gradient: estimate_gradient calls fitness once more, on its own copy of x
GradientEval(c) ==
    /\ calls[c].pc = "estimate"
    /\ LET x == heap[calls[c].x]
           g == calls[c].k + 1
       IN  /\ g <= 2 * Len(x)
           /\ calls' = [calls EXCEPT ![c] =
                          [@ EXCEPT !.k = g,
                                    !.result = Append(@, fitness(Deref(cobj), EvalPoint(x, g)))]]
    /\ UNCHANGED <<heap, cobj, cinit, written>>
    /\ UNCHANGED <<fitvars, geovars>>

GradientReturn(c) ==
    /\ calls[c].pc = "estimate"
    /\ calls[c].k >= 2 * Len(heap[calls[c].x])
    /\ calls' = [calls EXCEPT ![c] = [@ EXCEPT !.pc = "done", !.outcome = "return"]]
    /\ UNCHANGED <<heap, cobj, cinit, written>>
    /\ UNCHANGED <<fitvars, geovars>>

GetBoundsStep(c) ==
    /\ calls[c].pc = "bounds"
    /\ calls' = [calls EXCEPT ![c] =
                   [@ EXCEPT !.pc = "done", !.outcome = "return",
                             !.result = get_bounds(Deref(cobj))]]
    /\ UNCHANGED <<heap, cobj, cinit, written>>
    /\ UNCHANGED <<fitvars, geovars>>

CallStep(c) ==
    \/ CallStart(c)
    \/ RhoZeros(c)
    \/ RhoAdd(c)
    \/ RhoReturn(c)
    \/ GradientEval(c)
    \/ GradientReturn(c)
    \/ GetBoundsStep(c)

NextConc == \E c \in Callers : CallStep(c)

(***************************************************************************)
(* The density side as a state machine: one action per operation.          *)
(***************************************************************************)
InitFit ==
    /\ obj = NoObj
    /\ fop = "none"
    /\ fargs = NoArgs
    /\ foutcome = "none"
    /\ fresult = <<>>

\* nothing of the concurrent run exists in the sequential specifications
NoConc ==
    /\ heap = [r \in Refs |-> <<>>]
    /\ cobj = [X |-> XRef, Y |-> YRef, n |-> 1]
    /\ calls = [c \in Callers |-> IdleCall]
    /\ cinit = [X |-> <<>>, Y |-> <<>>, n |-> 1]
    /\ written = {}

Init == InitFit /\ InitGeo /\ NoConc

\* global_fit_udp(X, Y, n)
Construct ==
    /\ obj = NoObj
    /\ fop = "none"
    /\ \E X \in SeqsUpTo(XVals, MaxLen), Y \in SeqsUpTo(YVals, MaxLen), n \in 1..MaxN :
          obj' = init_udp(X, Y, n)
    /\ UNCHANGED <<fop, fargs, foutcome, fresult>>
    /\ UNCHANGED <<geovars, concvars>>

\* a call of the free function rho_approximation(h, params); it reads no
\* object, and the model explores it from the state before construction
RhoCall ==
    /\ obj = NoObj
    /\ fop = "none"
    /\ \E h \in SeqsUpTo(XVals, MaxLen), params \in SeqsUpTo(ParamVals, MaxParamLen) :
          /\ fargs' = [h |-> h, params |-> params]
          /\ fresult' = rho_approximation(h, params)
    /\ fop' = "rho_approximation"
    /\ foutcome' = "return"
    /\ UNCHANGED obj
    /\ UNCHANGED <<geovars, concvars>>

FitnessCall ==
    /\ obj # NoObj
    /\ fop = "none"
    /\ \E x \in SeqsUpTo(ParamVals, MaxParamLen) :
          /\ fargs' = [h |-> obj.X, params |-> x]
          /\ foutcome' = fitness(obj, x).outcome
          /\ fresult' = fitness(obj, x).value
    /\ fop' = "fitness"
    /\ UNCHANGED obj
    /\ UNCHANGED <<geovars, concvars>>

BoundsCall ==
    /\ obj # NoObj
    /\ fop = "none"
    /\ fop' = "get_bounds"
    /\ fargs' = NoArgs
    /\ foutcome' = "return"
    /\ fresult' = get_bounds(obj)
    /\ UNCHANGED obj
    /\ UNCHANGED <<geovars, concvars>>

GradientCall ==
    /\ obj # NoObj
    /\ fop = "none"
    /\ \E x \in SeqsUpTo(ParamVals, MaxParamLen) :
          /\ fargs' = [h |-> obj.X, params |-> x]
          /\ fresult' = gradient(obj, x)
    /\ fop' = "gradient"
    /\ foutcome' = "return"
    /\ UNCHANGED obj
    /\ UNCHANGED <<geovars, concvars>>

NextFit == Construct \/ RhoCall \/ FitnessCall \/ GradientCall \/ BoundsCall

SpecFit == Init /\ [][NextFit]_vars

InitShared == InitFit /\ InitGeo /\ InitConc

SpecConc == InitShared /\ [][NextConc]_vars

\* a call that has started runs to its end: nothing in cart2geo waits
SpecGeo == Init /\ [][NextGeo]_vars /\ WF_vars(NextGeo)

(***************************************************************************)
(* Claims about the density side, checked under SpecFit.                   *)
(***************************************************************************)
IsMultipleOf3(params) == Len(params) % 3 = 0

\* C1: for every term count n >= 1, get_bounds returns (lower, upper), both
\* of length 3n, lower all 0, upper 0.1 at entries 0..2n-1 and 100 at
\* entries 2n..3n-1.
C1_BoundsShape ==
    (fop = "get_bounds" /\ obj.n >= 1) =>
        LET n == obj.n
            lower == fresult[1]
            upper == fresult[2]
        IN  /\ foutcome = "return"
            /\ Len(fresult) = 2
            /\ Len(lower) = 3 * n
            /\ Len(upper) = 3 * n
            /\ \A i \in 1..(3 * n) : lower[i] = "0"
            /\ \A i \in 1..(2 * n) : upper[i] = "1e-1"
            /\ \A i \in (2 * n + 1)..(3 * n) : upper[i] = "100"

C1_Witness == fop = "get_bounds" /\ obj.n >= 2 /\ foutcome = "return"

\* C2: for every altitude sequence h of length m >= 0 and every parameter
\* vector of length 3n, n >= 1, rho_approximation returns m values, the
\* j-th being the sum over i < n of params[i] * exp(-(h[j] - params[2n+i]) *
\* params[n+i]), the terms added in the order of i.
C2_RhoFormula ==
    (fop = "rho_approximation" /\ IsMultipleOf3(fargs.params) /\ Len(fargs.params) >= 3) =>
        LET h == fargs.h
            params == fargs.params
            n == Len(params) \div 3
        IN  /\ foutcome = "return"
            /\ Len(fresult) = Len(h)
            /\ \A j \in 1..Len(h) :
                  fresult[j] = [i \in 1..n |->
                                 <<params[i],
                                   (0 - (h[j] - params[2 * n + i])) * params[n + i]>>]

C2_Witness ==
    /\ fop = "rho_approximation"
    /\ Len(fargs.params) = 6
    /\ fargs.params[1] # fargs.params[2]
    /\ fargs.params[3] # fargs.params[5]
    /\ Len(fargs.h) = 2
    /\ Len(fresult) = 2

C2_WitnessEmpty ==
    fop = "rho_approximation" /\ Len(fargs.params) = 3 /\ fargs.h = <<>> /\ fresult = <<>>

\* C3: a call of rho_approximation or fitness with a parameter vector whose
\* length is not a multiple of 3 ends in an InvalidInput error and returns
\* no value.
C3_InvalidLengthRejected ==
    (fop \in {"rho_approximation", "fitness"} /\ ~IsMultipleOf3(fargs.params)) =>
        foutcome = "InvalidInput"

\* C4: constructing a fit problem from X and Y of different lengths signals
\* an error: no object with Len(X) # Len(Y) exists.
C4_MismatchRejected ==
    obj # NoObj => Len(obj.X) = Len(obj.Y)

AllZero(params) == \A i \in 1..Len(params) : params[i] = 0

\* C7: for a non-empty dataset with every Y[i] > 0, fitness at the all-zero
\* vector of length 3n raises nothing and returns +infinity.
C7_ZeroParamsInfinite ==
    (/\ fop = "fitness"
     /\ Len(obj.X) >= 1
     /\ Len(obj.X) = Len(obj.Y)
     /\ \A i \in 1..Len(obj.Y) : obj.Y[i] > 0
     /\ Len(fargs.params) = 3 * obj.n
     /\ AllZero(fargs.params)) =>
        /\ foutcome = "return"
        /\ Len(fresult) = 1
        /\ fresult[1].class = "+inf"

C7_Witness ==
    /\ fop = "fitness"
    /\ Len(obj.X) = 2
    /\ Len(obj.Y) = 2
    /\ \A i \in 1..Len(obj.Y) : obj.Y[i] > 0
    /\ Len(fargs.params) = 3 * obj.n
    /\ AllZero(fargs.params)
    /\ foutcome = "return"
    /\ fresult[1].class = "+inf"

(***************************************************************************)
(* Claims about cart2geo, checked under SpecGeo.                           *)
(***************************************************************************)
Ended == gpc \in {"done", "raised"}

\* C5: for every input point, ellipsoid and backend, cart2geo with
\* iteration count k >= 0 runs the refinement step exactly k times and then
\* ends; the count depends on iters alone, and long is assigned once, before
\* the loop.
TripCountFixed ==
    /\ gsteps = git
    /\ gpc # "idle" => glongw = 1
    /\ (gpc # "idle" /\ gin.iters >= 0) => gsteps <= gin.iters
    /\ (Ended /\ gin.iters >= 0) => gsteps = gin.iters

C5_FixedTripCount == []TripCountFixed /\ <>Ended

C5_Witness ==
    /\ Ended
    /\ gin.iters = MaxIters
    /\ gsteps = MaxIters
    /\ gin.x = "zero" /\ gin.y = "zero"
    /\ gloc.phi = "nan"

Primitive(fn) ==
    CASE fn \in {"np.arctan2", "hy.atan2"} -> "atan2"
      [] fn \in {"np.arctan", "hy.atan"} -> "atan"
      [] fn \in {"np.sqrt", "hy.sqrt"} -> "sqrt"
      [] fn \in {"np.sin", "hy.sin"} -> "sin"
      [] fn \in {"np.cos", "hy.cos"} -> "cos"
      [] OTHER -> "other"

BackendOf(fn) == SubSeq(fn, 1, 2)

EntryPrimitives ==
    << <<"atan2", "y, x">>, <<"sqrt", "x**2 + y**2">>, <<"atan", "z / p / (1 - e2)">> >>

StepPrimitives ==
    << <<"sin", "phi">>, <<"sqrt", "1 - e2 * sin(phi)**2">>, <<"cos", "phi">>,
       <<"atan", "z / p / (1 - e2 * N / (N + h))">> >>

AtPole == gin.x = "zero" /\ gin.y = "zero" /\ gin.z # "zero"

\* C9 as stated: for every point of the polar axis (x = 0, y = 0, z # 0) and
\* every iteration count >= 1, numeric cart2geo raises nothing and returns
\* a value that is not finite for both h and phi.
C9_PoleNotFinite ==
    (Ended /\ ~gin.symbolic /\ AtPole /\ gin.iters >= 1) =>
        /\ goutcome = "return"
        /\ gresult[1] \in NotFinite
        /\ gresult[2] \in NotFinite

\* C9 as amended: at such a point numeric cart2geo raises nothing; with an
\* iteration count >= 2 both h and phi are NaN, and with iteration count 1
\* phi is NaN while h is the finite value -N.
C9_PoleNotFiniteFromTwo ==
    (Ended /\ ~gin.symbolic /\ AtPole /\ gin.iters >= 1) =>
        /\ goutcome = "return"
        /\ gresult[2] = "nan"
        /\ gin.iters >= 2 => gresult[1] = "nan"
        /\ gin.iters = 1 => gresult[1] = "neg"

C9_Witness ==
    /\ Ended
    /\ ~gin.symbolic
    /\ AtPole
    /\ gin.iters = 2
    /\ gresult[1] = "nan"
    /\ gresult[2] = "nan"

\* C10: cart2geo returns a triple (h, phi, long) exactly when iters >= 1;
\* with iters = 0 the return statement finds h unassigned and the call ends
\* in an error.
C10_ReturnsIffIterated ==
    Ended =>
        /\ (goutcome = "return" /\ Len(gresult) = 3) <=> gin.iters >= 1
        /\ gin.iters < 1 => (goutcome = "UnboundLocalError" /\ gresult = <<>>)

C10_Witness ==
    /\ gpc = "raised"
    /\ gin.iters = 0
    /\ goutcome = "UnboundLocalError"
    /\ gloc.h = Unbound
    /\ gloc.phi # Unbound

(***************************************************************************)
(* Claims about concurrent calls, checked under SpecConc.                  *)
(***************************************************************************)
\* what call c returns when it runs alone on the dataset the object was built from
Alone(c) ==
    LET x == heap[ParamsRef(c)]
    IN  CASE calls[c].op = "rho_approximation" ->
                [outcome |-> "return", value |-> rho_approximation(cinit.X, x)]
          [] calls[c].op = "fitness" -> fitness(cinit, x)
          [] calls[c].op = "gradient" ->
                [outcome |-> "return", value |-> gradient(cinit, x)]
          [] OTHER -> [outcome |-> "return", value |-> get_bounds(cinit)]

\* every write so far went to the output array of the call that made it
OwnWritesOnly == \A w \in written : w[1] = RetvalRef(w[2])

DatasetUntouched ==
    /\ cobj = [X |-> XRef, Y |-> YRef, n |-> cinit.n]
    /\ heap[XRef] = cinit.X
    /\ heap[YRef] = cinit.Y

ResultsAsAlone ==
    \A c \in Callers :
        calls[c].pc = "done" =>
            /\ calls[c].outcome = Alone(c).outcome
            /\ calls[c].result = Alone(c).value

\* C6: under any interleaving of concurrent rho_approximation, fitness,
\* gradient and get_bounds calls on one shared object, no call writes X, Y,
\* n, a caller's parameter vector or another call's output array; X, Y and
\* n are unchanged in every reachable state and each call returns what it
\* returns when run alone.
C6_ConcurrentCallsPure ==
    /\ OwnWritesOnly
    /\ DatasetUntouched
    /\ ResultsAsAlone

C6_Witness ==
    /\ calls[1].op = "fitness"
    /\ calls[1].pc = "done"
    /\ calls[2].op = "rho_approximation"
    /\ calls[2].pc = "loop"
    /\ calls[2].k = 2
    /\ heap[ParamsRef(1)] # heap[ParamsRef(2)]
    /\ heap[RetvalRef(1)] # heap[RetvalRef(2)]
    /\ <<RetvalRef(1), 1>> \in written
    /\ <<RetvalRef(2), 2>> \in written

====
